---- MODULE Spec2Model ----
(***************************************************************************)
(* Payment QR screen of the quoting client (PaymentQRScreen.tsx): the      *)
(* React component state, the 10 s poll interval, the status fetches in    *)
(* flight and the navigation / alert side effects.                         *)
(*                                                                         *)
(* A React function component re-creates its handlers on every render.     *)
(* The poll interval is installed by an effect that depends on [payment]   *)
(* only, so the callback the interval runs is the checkPaymentStatus of    *)
(* the render in which payment last changed: it reads the payment of that  *)
(* render (always the current one) and the isCheckingStatus of that render *)
(* (tickChecking below), not the current flag.  Handlers reached from the  *)
(* rendered buttons read the current state.                                *)
(***************************************************************************)
EXTENDS Integers, Sequences, FiniteSets, TLC

\* ---------------------------------------------------------------- bounds
MaxInFlight == 2      \* status requests outstanding at once in the model
MaxCount    == 2      \* saturation point of the side-effect counters

\* ---------------------------------------------------------------- domains
PaymentStatus  == {"pending", "approved", "rejected", "cancelled"}
TerminalStatus == {"approved", "rejected", "cancelled"}
QuoteStatus    == {"pending", "paid", "cancelled", "expired"}
CheckKind      == {"timer", "manual"}

VARIABLES
  autoBatching,      \* the React root batches state updates made after an await
  mounted,           \* the screen is on the navigation stack
  payment,           \* useState payment: "none" (null) or the held status
  quote,             \* useState quote: "none" (null) or the held quote status
  isLoading,         \* useState isLoading
  error,             \* useState error is a non-empty string
  isCheckingStatus,  \* useState isCheckingStatus
  tickChecking,      \* isCheckingStatus as captured by the interval callback
  inflight,          \* getPaymentStatus calls not yet returned, in issue order
  navReplaceCalls,   \* navigation.replace('PaymentSuccess') calls made
  alertsShown,       \* 'Pago Rechazado' alerts shown
  openAlerts,        \* 'Pago Rechazado' alerts still waiting for a button
  cancelDialog,      \* the 'Cancelar Pago' confirmation is open
  cancelConfirmed,   \* history: the user chose 'Si, cancelar'
  terminalSeen,      \* history: a checkPaymentStatus fetch returned a terminal status
  staleApplied,      \* history: a response was applied after a later call's response
  lastPoll           \* history: the last fetch event (timer fetch issued, or which
                     \* handler a getPaymentStatus call returned to and how)

vars == <<autoBatching, mounted, payment, quote, isLoading, error,
          isCheckingStatus, tickChecking, inflight, navReplaceCalls,
          alertsShown, openAlerts, cancelDialog, cancelConfirmed,
          terminalSeen, staleApplied, lastPoll>>

\* ------------------------------------------------- other parts of the client
\* The API client with the quote detail screen, and the quote calculator, are
\* modelled further down with their own specifications; the payment screen
\* leaves their variables alone.
VARIABLES
  now,               \* the clock (new Date()), in ticks
  qdStatus,          \* QuoteDetailScreen: status of the quote it holds
  qdIsExpired,       \* QuoteDetailScreen: isExpired as computed by the last render
  qdOnTop,           \* QuoteDetailScreen is the top screen of the stack
  isGeneratingPayment, \* QuoteDetailScreen: useState isGeneratingPayment
  req,               \* the axios request of createPayment: phase, _retry, _retryCount
  sends,             \* times the current request was put on the wire
  waits,             \* delays (ms) the interceptor slept before its re-sends
  lastResp,          \* the last error / response the interceptor saw for it
  outcome,           \* how the last createPayment call ended for its caller
  errorAlerts,       \* Alert.alert('Error', ...) shown by handleGeneratePayment
  postedBad,         \* history: a create POST left for a quote not payable then
  srvQuote,          \* backend: status of the quote
  srvPayments,       \* backend: statuses of the payments created for the quote
  calcIn,            \* arguments of calculateQuoteTotals
  calcOut,           \* what the last call of calculateQuoteTotals returned
  calcCalls,         \* calls of calculateQuoteTotals made with calcIn
  products,          \* CreateQuoteScreen: useState products (as loaded)
  productsLoaded,    \* CreateQuoteScreen: loadProducts has returned
  formItems,         \* CreateQuoteScreen: formData.items (the cart)
  formDiscount,      \* CreateQuoteScreen: formData.discount (text)
  formTax,           \* CreateQuoteScreen: formData.tax (text)
  customerName,      \* CreateQuoteScreen: formData.customer.name
  formErrors,        \* CreateQuoteScreen: useState errors (keys with a message)
  isSaving,          \* CreateQuoteScreen: useState isSaving
  quoteSent,         \* the last request handed to createQuote
  expKind,           \* expiry helpers: "quote" or "payment"
  expExpiresAt,      \* expiry helpers: expiresAt of the entity (ms), or NoExpiry
  expNow,            \* expiry helpers: the clock, Date.now() (ms)
  expOut,            \* expiry helpers: what the helper functions last returned
  storage,           \* AsyncStorage: key -> stored string
  stNow,             \* storage / auth: the clock, Date.now()
  authUser,          \* AuthContext: useState user
  authLoading,       \* AuthContext: useState isLoading
  authHeader,        \* api.defaults.headers.Authorization is set
  lastGet            \* storage utils: the last getItem call and its result

apiVars  == <<now, qdStatus, qdIsExpired, qdOnTop, isGeneratingPayment, req, sends,
              waits, lastResp, outcome, errorAlerts, postedBad, srvQuote, srvPayments>>
calcVars == <<calcIn, calcOut, calcCalls>>
formVars == <<products, productsLoaded, formItems, formDiscount, formTax, customerName,
              formErrors, isSaving, quoteSent>>
expVars  == <<expKind, expExpiresAt, expNow, expOut>>
storeVars == <<storage, stNow, authUser, authLoading, authHeader, lastGet>>
extraVars == <<formVars, expVars, storeVars>>
restVars == <<apiVars, calcVars, extraVars>>
allVars  == <<vars, restVars>>

\* ------------------------------------------------------------- rest states
IdleRequest == [phase |-> "idle", retry |-> FALSE, retryCount |-> 0]
NoResponse  == [code |-> "none", status |-> 0]

\* QuoteDetailScreen just mounted with a pending quote, nothing requested yet
ApiIdle ==
  /\ now = 0
  /\ qdStatus = "pending"
  /\ qdIsExpired = FALSE
  /\ qdOnTop = TRUE
  /\ isGeneratingPayment = FALSE
  /\ req = IdleRequest
  /\ sends = 0
  /\ waits = <<>>
  /\ lastResp = NoResponse
  /\ outcome = "none"
  /\ errorAlerts = 0
  /\ postedBad = FALSE
  /\ srvQuote = "pending"
  /\ srvPayments = <<>>

NoTotals == [status |-> "none", subtotal |-> 0, discountAmount |-> 0,
             taxAmount |-> 0, total |-> 0]

\* calculateQuoteTotals not called
CalcIdle ==
  /\ calcIn = [items |-> <<>>, discount |-> 0, tax |-> 0]
  /\ calcOut = NoTotals
  /\ calcCalls = 0

\* the request of createQuote, as a record that also stands for "none sent"
NoQuoteRequest == [sent |-> FALSE, items |-> <<>>, discount |-> "0", tax |-> "0"]

\* CreateQuoteScreen as constructed, before loadProducts returned
FormIdle ==
  /\ products = <<>>
  /\ productsLoaded = FALSE
  /\ formItems = <<>>
  /\ formDiscount = "0"
  /\ formTax = "21"
  /\ customerName = ""
  /\ formErrors = {}
  /\ isSaving = FALSE
  /\ quoteSent = NoQuoteRequest

NoExpiry == -1     \* an expiry that is undefined (payment.expiresAt, options.expiry)
NoTimeInfo == [called |-> FALSE, expired |-> FALSE, urgency |-> "low", isExpired |-> FALSE]

\* no expiry helper called
ExpIdle ==
  /\ expKind = "quote"
  /\ expExpiresAt = 0
  /\ expNow = 0
  /\ expOut = NoTimeInfo

\* STORAGE_CONFIG.KEYS.AUTH_TOKEN, USER_DATA, and a key of the cache
StorageKeys == {"auth_token", "user_data", "cache"}

\* A stored string, by what JSON.parse makes of it: "absent" (no entry), "raw"
\* (not JSON: the token), "json" (JSON that is no StorageItem: the user), "item"
\* (a StorageItem with its data and expiry)
Entry(kind, data, expiry) == [kind |-> kind, data |-> data, expiry |-> expiry]
Absent == Entry("absent", "", NoExpiry)
NoCall == [key |-> "", result |-> "none"]

\* the app just started on an empty AsyncStorage: nobody logged in
StoreIdle ==
  /\ storage = [k \in StorageKeys |-> Absent]
  /\ stNow = 1
  /\ authUser = "null"
  /\ authLoading = TRUE
  /\ authHeader = FALSE
  /\ lastGet = NoCall

ExtraIdle == FormIdle /\ ExpIdle /\ StoreIdle

\* the payment screen is not on the stack
ScreenIdle ==
  /\ autoBatching = FALSE
  /\ mounted = FALSE
  /\ payment = "none"
  /\ quote = "none"
  /\ isLoading = FALSE
  /\ error = FALSE
  /\ isCheckingStatus = FALSE
  /\ tickChecking = FALSE
  /\ inflight = <<>>
  /\ navReplaceCalls = 0
  /\ alertsShown = 0
  /\ openAlerts = 0
  /\ cancelDialog = FALSE
  /\ cancelConfirmed = FALSE
  /\ terminalSeen = FALSE
  /\ staleApplied = FALSE
  /\ lastPoll = "none"

\* ---------------------------------------------------------------- helpers
Bump(n) == IF n < MaxCount THEN n + 1 ELSE n

Request(k) == [kind |-> k, overtaken |-> FALSE]

RemoveAt(s, i) == SubSeq(s, 1, i - 1) \o SubSeq(s, i + 1, Len(s))

\* response i has been applied: every call issued before it is now overtaken
Overtake(s, i) ==
  [j \in DOMAIN s |-> IF j < i THEN [s[j] EXCEPT !.overtaken = TRUE] ELSE s[j]]

ChecksInFlight == {i \in DOMAIN inflight : inflight[i].kind \in CheckKind}

\* the main view (with its buttons) is rendered: neither the loading nor the
\* error branch is taken
MainViewShown == mounted /\ ~isLoading /\ ~error /\ payment # "none" /\ quote # "none"

\* Alert.alert dialogs are modal
NoModal == openAlerts = 0 /\ ~cancelDialog

\* ---------------------------------------------------------------- Init
Init ==
  /\ autoBatching \in BOOLEAN
  /\ mounted = TRUE
  /\ payment = "none"
  /\ quote = "none"
  /\ isLoading = TRUE
  /\ error = FALSE
  /\ isCheckingStatus = FALSE
  /\ tickChecking = FALSE
  /\ inflight = <<Request("load")>>
  /\ navReplaceCalls = 0
  /\ alertsShown = 0
  /\ openAlerts = 0
  /\ cancelDialog = FALSE
  /\ cancelConfirmed = FALSE
  /\ terminalSeen = FALSE
  /\ staleApplied = FALSE
  /\ lastPoll = "none"
  /\ ApiIdle
  /\ CalcIdle
  /\ ExtraIdle

\* ---------------------------------------------------------------- handlers
\* loadPaymentData up to its await: setError(''), setIsLoading(true) and the
\* getPaymentStatus call.  State setters of a removed screen are no-ops.
loadPaymentData ==
  /\ Len(inflight) < MaxInFlight
  /\ inflight' = Append(inflight, Request("load"))
  /\ IF mounted
       THEN error' = FALSE /\ isLoading' = TRUE
       ELSE UNCHANGED <<error, isLoading>>

\* checkPaymentStatus up to its await, run by a closure that sees the flag
\* `checking`: the guard, setIsCheckingStatus(true), the getPaymentStatus call
checkPaymentStatus(kind, checking) ==
  /\ payment # "none"
  /\ ~checking
  /\ Len(inflight) < MaxInFlight
  /\ inflight' = Append(inflight, Request(kind))
  /\ isCheckingStatus' = TRUE

\* TimerTick of an interval that the effect's cleanup did not clear
TimerTick_NoCleanup ==
  /\ UNCHANGED restVars
  /\ payment = "pending"
  /\ IF tickChecking
       THEN UNCHANGED vars
       ELSE /\ checkPaymentStatus("timer", tickChecking)
            /\ lastPoll' = "timerFetch"
            /\ UNCHANGED <<autoBatching, mounted, payment, quote, isLoading, error,
                           tickChecking, navReplaceCalls, alertsShown, openAlerts,
                           cancelDialog, cancelConfirmed, terminalSeen, staleApplied>>

\* the setInterval callback of the [payment] effect
TimerTick ==
  /\ UNCHANGED restVars
  /\ mounted
  /\ payment = "pending"
  /\ IF tickChecking
       THEN UNCHANGED vars
       ELSE /\ checkPaymentStatus("timer", tickChecking)
            /\ lastPoll' = "timerFetch"
            /\ UNCHANGED <<autoBatching, mounted, payment, quote, isLoading, error,
                           tickChecking, navReplaceCalls, alertsShown, openAlerts,
                           cancelDialog, cancelConfirmed, terminalSeen, staleApplied>>

\* a press on the 'Actualizar' button (disabled while isCheckingStatus)
handleManualRefresh ==
  /\ UNCHANGED restVars
  /\ MainViewShown
  /\ NoModal
  /\ IF isCheckingStatus
       THEN UNCHANGED vars
       ELSE /\ checkPaymentStatus("manual", isCheckingStatus)
            /\ UNCHANGED <<autoBatching, mounted, payment, quote, isLoading, error,
                           tickChecking, navReplaceCalls, alertsShown, openAlerts,
                           cancelDialog, cancelConfirmed, terminalSeen, staleApplied,
                           lastPoll>>

\* onRetry of the error view
ErrorRetry ==
  /\ UNCHANGED restVars
  /\ mounted
  /\ ~isLoading
  /\ error \/ payment = "none" \/ quote = "none"
  /\ NoModal
  /\ loadPaymentData
  /\ UNCHANGED <<autoBatching, mounted, payment, quote, isCheckingStatus,
                 tickChecking, navReplaceCalls, alertsShown, openAlerts,
                 cancelDialog, cancelConfirmed, terminalSeen, staleApplied, lastPoll>>

\* loadPaymentData after its await resolved with result = {payment: st, quote: q}.
\* It does not touch isCheckingStatus, so the re-installed interval captures
\* the flag as it is.
LoadOk(i, st, q) ==
  /\ UNCHANGED restVars
  /\ i \in DOMAIN inflight
  /\ inflight[i].kind = "load"
  /\ navReplaceCalls' = IF st = "approved" THEN Bump(navReplaceCalls) ELSE navReplaceCalls
  /\ IF mounted
       THEN /\ payment' = st
            /\ quote' = q
            /\ tickChecking' = isCheckingStatus
            /\ staleApplied' = (staleApplied \/ inflight[i].overtaken)
            /\ inflight' = RemoveAt(Overtake(inflight, i), i)
            /\ mounted' = (st # "approved")
            /\ isLoading' = IF st = "approved" THEN isLoading ELSE FALSE
       ELSE /\ inflight' = RemoveAt(inflight, i)
            /\ UNCHANGED <<payment, quote, tickChecking, staleApplied, mounted, isLoading>>
  /\ lastPoll' = "loadOk"
  /\ UNCHANGED <<autoBatching, error, isCheckingStatus, alertsShown, openAlerts,
                 cancelDialog, cancelConfirmed, terminalSeen>>

\* loadPaymentData after its await rejected
LoadFail(i) ==
  /\ UNCHANGED restVars
  /\ i \in DOMAIN inflight
  /\ inflight[i].kind = "load"
  /\ inflight' = RemoveAt(inflight, i)
  /\ IF mounted
       THEN error' = TRUE /\ isLoading' = FALSE
       ELSE UNCHANGED <<error, isLoading>>
  /\ lastPoll' = "loadFail"
  /\ UNCHANGED <<autoBatching, mounted, payment, quote, isCheckingStatus,
                 tickChecking, navReplaceCalls, alertsShown, openAlerts,
                 cancelDialog, cancelConfirmed, terminalSeen, staleApplied>>

\* checkPaymentStatus after its await resolved with result = {payment: st, quote: q}.
\* setPayment re-runs the [payment] effect, which re-installs the interval with
\* the handlers of the render that follows setPayment.  On a root without
\* automatic batching that render happens before the finally block, with
\* isCheckingStatus as it is on entry; on a batching root setPayment and
\* setIsCheckingStatus(false) are rendered together.  After navigation.replace
\* the screen is gone and the remaining setter does nothing.
CheckOk(i, st, q) ==
  /\ UNCHANGED restVars
  /\ i \in DOMAIN inflight
  /\ inflight[i].kind \in CheckKind
  /\ navReplaceCalls' = IF st = "approved" THEN Bump(navReplaceCalls) ELSE navReplaceCalls
  /\ alertsShown' = IF st \in {"rejected", "cancelled"} THEN Bump(alertsShown) ELSE alertsShown
  /\ openAlerts' = IF st \in {"rejected", "cancelled"} THEN Bump(openAlerts) ELSE openAlerts
  /\ terminalSeen' = (terminalSeen \/ st \in TerminalStatus)
  /\ lastPoll' = "checkOk"
  /\ IF mounted
       THEN /\ payment' = st
            /\ quote' = q
            /\ tickChecking' = IF autoBatching THEN FALSE ELSE isCheckingStatus
            /\ staleApplied' = (staleApplied \/ inflight[i].overtaken)
            /\ inflight' = RemoveAt(Overtake(inflight, i), i)
            /\ mounted' = (st # "approved")
            /\ isCheckingStatus' = IF st = "approved" THEN isCheckingStatus ELSE FALSE
       ELSE /\ inflight' = RemoveAt(inflight, i)
            /\ UNCHANGED <<payment, quote, tickChecking, staleApplied, mounted,
                           isCheckingStatus>>
  /\ UNCHANGED <<autoBatching, isLoading, error, cancelDialog, cancelConfirmed>>

\* CheckFail without the finally block
CheckFail_KeepsFlag(i) ==
  /\ UNCHANGED restVars
  /\ i \in DOMAIN inflight
  /\ inflight[i].kind \in CheckKind
  /\ inflight' = RemoveAt(inflight, i)
  /\ lastPoll' = "checkFail"
  /\ UNCHANGED <<autoBatching, mounted, payment, quote, isLoading, error,
                 isCheckingStatus, tickChecking, navReplaceCalls, alertsShown,
                 openAlerts, cancelDialog, cancelConfirmed, terminalSeen, staleApplied>>

\* checkPaymentStatus after its await rejected: catch logs, finally clears the flag
CheckFail(i) ==
  /\ UNCHANGED restVars
  /\ i \in DOMAIN inflight
  /\ inflight[i].kind \in CheckKind
  /\ inflight' = RemoveAt(inflight, i)
  /\ isCheckingStatus' = IF mounted THEN FALSE ELSE isCheckingStatus
  /\ lastPoll' = "checkFail"
  /\ UNCHANGED <<autoBatching, mounted, payment, quote, isLoading, error,
                 tickChecking, navReplaceCalls, alertsShown, openAlerts,
                 cancelDialog, cancelConfirmed, terminalSeen, staleApplied>>

\* 'Volver' of the 'Pago Rechazado' alert: navigation.goBack()
AlertVolver ==
  /\ UNCHANGED restVars
  /\ openAlerts > 0
  /\ openAlerts' = openAlerts - 1
  /\ mounted' = FALSE
  /\ UNCHANGED <<autoBatching, payment, quote, isLoading, error, isCheckingStatus,
                 tickChecking, inflight, navReplaceCalls, alertsShown, cancelDialog,
                 cancelConfirmed, terminalSeen, staleApplied, lastPoll>>

\* 'Reintentar' of the 'Pago Rechazado' alert: loadPaymentData
AlertReintentar ==
  /\ UNCHANGED restVars
  /\ openAlerts > 0
  /\ openAlerts' = openAlerts - 1
  /\ loadPaymentData
  /\ UNCHANGED <<autoBatching, mounted, payment, quote, isCheckingStatus,
                 tickChecking, navReplaceCalls, alertsShown, cancelDialog,
                 cancelConfirmed, terminalSeen, staleApplied, lastPoll>>

\* a press on 'Cancelar': the confirmation dialog opens
handleCancelPayment ==
  /\ UNCHANGED restVars
  /\ MainViewShown
  /\ NoModal
  /\ cancelDialog' = TRUE
  /\ UNCHANGED <<autoBatching, mounted, payment, quote, isLoading, error,
                 isCheckingStatus, tickChecking, inflight, navReplaceCalls,
                 alertsShown, openAlerts, cancelConfirmed, terminalSeen,
                 staleApplied, lastPoll>>

\* 'No' of the confirmation dialog
CancelNo ==
  /\ UNCHANGED restVars
  /\ cancelDialog
  /\ cancelDialog' = FALSE
  /\ UNCHANGED <<autoBatching, mounted, payment, quote, isLoading, error,
                 isCheckingStatus, tickChecking, inflight, navReplaceCalls,
                 alertsShown, openAlerts, cancelConfirmed, terminalSeen,
                 staleApplied, lastPoll>>

\* CancelYes with an optimistic local write of the status
CancelYes_MarksCancelled ==
  /\ UNCHANGED restVars
  /\ cancelDialog
  /\ cancelDialog' = FALSE
  /\ cancelConfirmed' = (cancelConfirmed \/ mounted)
  /\ mounted' = FALSE
  /\ payment' = IF payment = "none" THEN payment ELSE "cancelled"
  /\ UNCHANGED <<autoBatching, quote, isLoading, error, isCheckingStatus,
                 tickChecking, inflight, navReplaceCalls, alertsShown, openAlerts,
                 terminalSeen, staleApplied, lastPoll>>

\* 'Si, cancelar' of the confirmation dialog: navigation.goBack() and nothing else
CancelYes ==
  /\ UNCHANGED restVars
  /\ cancelDialog
  /\ cancelDialog' = FALSE
  /\ cancelConfirmed' = (cancelConfirmed \/ mounted)
  /\ mounted' = FALSE
  /\ UNCHANGED <<autoBatching, payment, quote, isLoading, error, isCheckingStatus,
                 tickChecking, inflight, navReplaceCalls, alertsShown, openAlerts,
                 terminalSeen, staleApplied, lastPoll>>

\* the header / hardware back of the stack screen
GoBack ==
  /\ UNCHANGED restVars
  /\ mounted
  /\ NoModal
  /\ mounted' = FALSE
  /\ UNCHANGED <<autoBatching, payment, quote, isLoading, error, isCheckingStatus,
                 tickChecking, inflight, navReplaceCalls, alertsShown, openAlerts,
                 cancelDialog, cancelConfirmed, terminalSeen, staleApplied, lastPoll>>

Respond ==
  \E i \in 1..MaxInFlight :
    \/ \E st \in PaymentStatus, q \in QuoteStatus : LoadOk(i, st, q)
    \/ LoadFail(i)
    \/ \E st \in PaymentStatus, q \in QuoteStatus : CheckOk(i, st, q)
    \/ CheckFail(i)

Next ==
  \/ TimerTick
  \/ handleManualRefresh
  \/ ErrorRetry
  \/ Respond
  \/ AlertVolver
  \/ AlertReintentar
  \/ handleCancelPayment
  \/ CancelNo
  \/ CancelYes
  \/ GoBack

Spec == Init /\ [][Next]_vars

\* the interval keeps firing and every request returns or times out
LiveSpec == Spec /\ SF_vars(TimerTick) /\ WF_vars(Respond)

TypeOK ==
  /\ autoBatching \in BOOLEAN
  /\ mounted \in BOOLEAN
  /\ payment \in PaymentStatus \cup {"none"}
  /\ quote \in QuoteStatus \cup {"none"}
  /\ Len(inflight) <= MaxInFlight
  /\ navReplaceCalls \in 0..MaxCount
  /\ alertsShown \in 0..MaxCount
  /\ openAlerts \in 0..MaxCount

\* ---------------------------------------------------------------- claims

\* a step in which the interval callback issued a getPaymentStatus call
TimerFetchIssued ==
  /\ Len(inflight') = Len(inflight) + 1
  /\ inflight'[Len(inflight')].kind = "timer"

\* a step in which a getPaymentStatus call returned
Returned == Len(inflight') < Len(inflight)

\* C1: once the held payment status is approved, rejected or cancelled it
\* never changes again.
C1_TerminalSticky ==
  [][(payment \in TerminalStatus) => (payment' = payment)]_vars

\* C2: at most one status fetch issued by checkPaymentStatus is in flight at
\* any time.
C2_SingleFlight == Cardinality(ChecksInFlight) <= 1

\* C3: once the screen is torn down, no step changes the held payment or
\* quote, calls navigation.replace or shows the rejection alert.
C3_TeardownQuiet ==
  [][~mounted => /\ payment' = payment
                 /\ quote' = quote
                 /\ navReplaceCalls' = navReplaceCalls
                 /\ alertsShown' = alertsShown]_vars

\* C4: navigation.replace to PaymentSuccess is executed at most once and the
\* 'Pago Rechazado' alert is shown at most once.
C4_NotifyOnce == navReplaceCalls <= 1 /\ alertsShown <= 1

\* C5: after the user confirmed the cancel, the payment is held as cancelled
\* and no later response triggers the success navigation.
C5_LocalCancelWins ==
  [][cancelConfirmed' => /\ payment' = "cancelled"
                         /\ (cancelConfirmed => navReplaceCalls' = navReplaceCalls)]_vars

\* C6: after a checkPaymentStatus fetch has returned a terminal status, the
\* poll timer issues no further status fetch.
C6_NoFetchAfterTerminal ==
  [][terminalSeen => ~TimerFetchIssued]_vars

\* C7: no manual status fetch is issued while a timer-driven one is in
\* flight (requests are held in issue order).
C7_ManualCoalesced ==
  \A i, j \in DOMAIN inflight :
    (i < j /\ inflight[i].kind = "timer") => inflight[j].kind # "manual"

\* C8: the response to an earlier getPaymentStatus call is never applied to
\* the held payment after the response to a later call.
C8_InOrder == ~staleApplied

\* C9: when a status fetch made by checkPaymentStatus fails, the held payment
\* and quote stay as they were, no navigation or alert happens, and the
\* in-flight flag of the (mounted) screen is clear afterwards.
C9_FailLeavesState ==
  [][(Returned /\ lastPoll' = "checkFail") =>
       /\ payment' = payment
       /\ quote' = quote
       /\ mounted' = mounted
       /\ navReplaceCalls' = navReplaceCalls
       /\ alertsShown' = alertsShown
       /\ openAlerts' = openAlerts
       /\ (mounted => ~isCheckingStatus')]_vars

\* a failed check on a mounted screen with a pending payment
C9_Witness ==
  /\ lastPoll = "checkFail"
  /\ mounted
  /\ payment = "pending"
  /\ ~isCheckingStatus

\* C10: while the screen is mounted and the held payment pending, a completed
\* status check is eventually followed by another timer-driven fetch.
C10_PollingContinues ==
  (lastPoll \in {"checkOk", "checkFail"} /\ mounted /\ payment = "pending")
    ~> (lastPoll = "timerFetch" \/ ~mounted \/ payment # "pending")

\* ======================================================================
\* Quote detail screen, createPayment and the API client's retry interceptor
\* ======================================================================

\* ---------------------------------------------------------------- constants
RETRY_ATTEMPTS == 3
RETRY_DELAY    == 1000

\* ---------------------------------------------------------------- bounds
MaxTime        == 3      \* last clock tick of the model
QuoteExpiresAt == 2      \* quote.expiresAt of the quote on screen, in ticks
MaxPayments    == 2      \* payments the backend creates in the model

\* what axios hands to the response interceptor's error handler: error.code and
\* error.response?.status (0: no response)
ErrorResponses ==
  { [code |-> "NETWORK_ERROR",    status |-> 0],
    [code |-> "ECONNREFUSED",     status |-> 0],
    [code |-> "ECONNABORTED",     status |-> 0],
    [code |-> "ERR_BAD_REQUEST",  status |-> 400],
    [code |-> "ERR_BAD_REQUEST",  status |-> 401],
    [code |-> "ERR_BAD_RESPONSE", status |-> 500],
    [code |-> "ERR_BAD_RESPONSE", status |-> 503] }

IsClientError(r) == r.status >= 400 /\ r.status < 500

\* the condition of the interceptor's retry block
IsRetryable(r) ==
  \/ r.code = "NETWORK_ERROR"
  \/ r.code = "ECONNREFUSED"
  \/ r.status >= 500

\* ShouldRetry with the comparison off by one
ShouldRetry_OneMore(r, retryCount) == IsRetryable(r) /\ retryCount <= RETRY_ATTEMPTS

\* ShouldRetry that also re-sends what the backend refused
ShouldRetry_ClientErrors(r, retryCount) ==
  (IsRetryable(r) \/ r.status >= 400) /\ retryCount < RETRY_ATTEMPTS

\* the interceptor re-sends: retryable and retryCount < RETRY_ATTEMPTS
ShouldRetry(r, retryCount) == IsRetryable(r) /\ retryCount < RETRY_ATTEMPTS

\* setTimeout(resolve, RETRY_DELAY * (retryCount + 1))
RetryDelay(retryCount) == RETRY_DELAY * (retryCount + 1)

\* getTimeUntilExpiration(quote).expired at clock t: diffMs <= 0
timeInfoExpired(t) == QuoteExpiresAt - t <= 0

\* ---------------------------------------------------------------- backend
ActivePayments == {i \in DOMAIN srvPayments : srvPayments[i] = "pending"}

\* create() without the check for an active payment
BackendAccepts_NoActiveCheck == srvQuote = "pending" /\ now <= QuoteExpiresAt

\* create(quoteId) succeeds only for a pending, non-expired quote without a
\* non-terminal payment
BackendAccepts ==
  /\ srvQuote = "pending"
  /\ now <= QuoteExpiresAt
  /\ ActivePayments = {}

\* the gateway settles a pending payment; an approved payment pays the quote
SrvSettle(i, st) ==
  /\ i \in ActivePayments
  /\ st \in TerminalStatus
  /\ srvPayments' = [srvPayments EXCEPT ![i] = st]
  /\ srvQuote' = IF st = "approved" THEN "paid" ELSE srvQuote
  /\ UNCHANGED <<now, qdStatus, qdIsExpired, qdOnTop, isGeneratingPayment, req,
                 sends, waits, lastResp, outcome, errorAlerts, postedBad>>
  /\ UNCHANGED <<vars, calcVars, extraVars>>

\* ---------------------------------------------------------------- client
ClockTick ==
  /\ now < MaxTime
  /\ now' = now + 1
  /\ UNCHANGED <<qdStatus, qdIsExpired, qdOnTop, isGeneratingPayment, req, sends,
                 waits, lastResp, outcome, errorAlerts, postedBad, srvQuote,
                 srvPayments>>
  /\ UNCHANGED <<vars, calcVars, extraVars>>

\* QuoteDetailScreen is opened (again): loadQuote and the render that follows
loadQuote ==
  /\ qdOnTop
  /\ req.phase = "idle"
  /\ qdStatus' = srvQuote
  /\ qdIsExpired' = timeInfoExpired(now)
  /\ isGeneratingPayment' = FALSE
  /\ UNCHANGED <<now, qdOnTop, req, sends, waits, lastResp, outcome, errorAlerts,
                 postedBad, srvQuote, srvPayments>>
  /\ UNCHANGED <<vars, calcVars, extraVars>>

\* the payment screen on top of QuoteDetailScreen is popped; nothing re-renders
BackToQuoteDetail ==
  /\ ~qdOnTop
  /\ qdOnTop' = TRUE
  /\ UNCHANGED <<now, qdStatus, qdIsExpired, isGeneratingPayment, req, sends,
                 waits, lastResp, outcome, errorAlerts, postedBad, srvQuote,
                 srvPayments>>
  /\ UNCHANGED <<vars, calcVars, extraVars>>

\* a press on 'Generar Codigo QR de Pago' (rendered for a pending quote that was
\* not expired at the last render, disabled while isGeneratingPayment):
\* handleGeneratePayment up to the await of createPayment
handleGeneratePayment ==
  /\ qdOnTop
  /\ qdStatus = "pending"
  /\ ~qdIsExpired
  /\ ~isGeneratingPayment
  /\ req.phase = "idle"
  /\ isGeneratingPayment' = TRUE
  /\ qdIsExpired' = timeInfoExpired(now)
  /\ req' = [phase |-> "wire", retry |-> FALSE, retryCount |-> 0]
  /\ sends' = 1
  /\ waits' = <<>>
  /\ lastResp' = NoResponse
  /\ outcome' = "pending"
  /\ postedBad' = (postedBad \/ now > QuoteExpiresAt \/ srvQuote # "pending")
  /\ UNCHANGED <<now, qdStatus, qdOnTop, errorAlerts, srvQuote, srvPayments>>
  /\ UNCHANGED <<vars, calcVars, extraVars>>

\* POST /payments/create answered 2xx: createPayment returns, the screen
\* navigates to PaymentQR, finally clears isGeneratingPayment
CreateResolved ==
  /\ req.phase = "wire"
  /\ BackendAccepts
  /\ Len(srvPayments) < MaxPayments
  /\ srvPayments' = Append(srvPayments, "pending")
  /\ lastResp' = [code |-> "none", status |-> 200]
  /\ req' = IdleRequest
  /\ outcome' = "ok"
  /\ qdOnTop' = FALSE
  /\ isGeneratingPayment' = FALSE
  /\ qdIsExpired' = timeInfoExpired(now)
  /\ UNCHANGED <<now, qdStatus, sends, waits, errorAlerts, postedBad, srvQuote>>
  /\ UNCHANGED <<vars, calcVars, extraVars>>

\* the attempt on the wire fails with r (created: the backend had created the
\* payment before answering 5xx): the response interceptor's error handler,
\* then, when it rejects, the catch and finally blocks of createPayment and
\* handleGeneratePayment
CreateFailed(r, created) ==
  /\ req.phase = "wire"
  /\ r \in ErrorResponses
  /\ created => (r.status >= 500 /\ BackendAccepts /\ Len(srvPayments) < MaxPayments)
  /\ srvPayments' = IF created THEN Append(srvPayments, "pending") ELSE srvPayments
  /\ lastResp' = r
  /\ IF ShouldRetry(r, req.retryCount)
       THEN /\ req' = [phase |-> "wire",
                       retry |-> (req.retry \/ r.status = 401),
                       retryCount |-> req.retryCount + 1]
            /\ waits' = Append(waits, RetryDelay(req.retryCount))
            /\ sends' = sends + 1
            /\ UNCHANGED <<outcome, errorAlerts, isGeneratingPayment, qdIsExpired>>
       ELSE /\ req' = IdleRequest
            /\ outcome' = "error"
            /\ errorAlerts' = Bump(errorAlerts)
            /\ isGeneratingPayment' = FALSE
            /\ qdIsExpired' = timeInfoExpired(now)
            /\ UNCHANGED <<waits, sends>>
  /\ UNCHANGED <<now, qdStatus, qdOnTop, postedBad, srvQuote>>
  /\ UNCHANGED <<vars, calcVars, extraVars>>

ApiInit == ApiIdle /\ ScreenIdle /\ CalcIdle /\ ExtraIdle

ApiNext ==
  \/ ClockTick
  \/ loadQuote
  \/ BackToQuoteDetail
  \/ handleGeneratePayment
  \/ CreateResolved
  \/ \E r \in ErrorResponses, created \in BOOLEAN : CreateFailed(r, created)
  \/ \E i \in 1..MaxPayments, st \in TerminalStatus : SrvSettle(i, st)

ApiSpec == ApiInit /\ [][ApiNext]_allVars

ApiTypeOK ==
  /\ now \in 0..MaxTime
  /\ sends \in 0..(RETRY_ATTEMPTS + 1)
  /\ Len(waits) <= RETRY_ATTEMPTS
  /\ Len(srvPayments) <= MaxPayments
  /\ req.retryCount \in 0..RETRY_ATTEMPTS

\* ---------------------------------------------------------------- quote totals
\* Amounts are held in units of 1/Scale of a currency unit, so that a percentage
\* of a percentage of a whole price is held exactly (2250 * 21 / 100 = 472.5 is
\* 4725000).  The binary rounding error of the JavaScript doubles is not modelled.
Scale    == 10000
MaxItems == 2      \* longest item list
MaxCalls == 2      \* calls of calculateQuoteTotals with the same arguments

Prices     == {-100, 0, 500, 1000}      \* item.product.price, whole currency units
Quantities == {0, 1, 2}                 \* item.quantity
Discounts  == {-5, 0, 10, 50, 100, 150}
Taxes      == {-5, 0, 21, 100, 120}
Items      == [price : Prices, quantity : Quantities]
ItemLists  == UNION {[1..n -> Items] : n \in 0..MaxItems}

\* (x * pct) / 100 for an amount x, without the intermediate product leaving the
\* integers of the checker
MulDiv100(x, pct) == (x \div 100) * pct + ((x % 100) * pct) \div 100

\* items.reduce((sum, item) => sum + item.product.price * item.quantity, 0)
RECURSIVE reduceSubtotal(_)
reduceSubtotal(items) ==
  IF items = <<>>
    THEN 0
    ELSE reduceSubtotal(SubSeq(items, 1, Len(items) - 1))
           + items[Len(items)].price * items[Len(items)].quantity * Scale

\* calculateQuoteTotals charging the tax on the subtotal before the discount
calculateQuoteTotals_TaxOnSubtotal(items, discount, tax) ==
  LET subtotal       == reduceSubtotal(items)
      discountAmount == MulDiv100(subtotal, discount)
      afterDiscount  == subtotal - discountAmount
      taxAmount      == MulDiv100(subtotal, tax)
      total          == afterDiscount + taxAmount
  IN  [status |-> "returned", subtotal |-> subtotal,
       discountAmount |-> discountAmount, taxAmount |-> taxAmount, total |-> total]

\* calculateQuoteTotals adding the tax to the subtotal before the discount
calculateQuoteTotals_TotalOnSubtotal(items, discount, tax) ==
  LET subtotal       == reduceSubtotal(items)
      discountAmount == MulDiv100(subtotal, discount)
      afterDiscount  == subtotal - discountAmount
      taxAmount      == MulDiv100(afterDiscount, tax)
      total          == subtotal + taxAmount
  IN  [status |-> "returned", subtotal |-> subtotal,
       discountAmount |-> discountAmount, taxAmount |-> taxAmount, total |-> total]

\* calculateQuoteTotals(items, discount, tax): no validation, no rounding, no throw
calculateQuoteTotals(items, discount, tax) ==
  LET subtotal       == reduceSubtotal(items)
      discountAmount == MulDiv100(subtotal, discount)
      afterDiscount  == subtotal - discountAmount
      taxAmount      == MulDiv100(afterDiscount, tax)
      total          == afterDiscount + taxAmount
  IN  [status |-> "returned", subtotal |-> subtotal,
       discountAmount |-> discountAmount, taxAmount |-> taxAmount, total |-> total]

\* a caller evaluates calculateQuoteTotals with the arguments calcIn
Calculate ==
  /\ calcCalls < MaxCalls
  /\ calcCalls' = calcCalls + 1
  /\ calcOut' = calculateQuoteTotals(calcIn.items, calcIn.discount, calcIn.tax)
  /\ UNCHANGED <<calcIn, vars, apiVars, extraVars>>

CalcInit ==
  /\ calcIn \in [items : ItemLists, discount : Discounts, tax : Taxes]
  /\ calcOut = NoTotals
  /\ calcCalls = 0
  /\ ScreenIdle
  /\ ApiIdle
  /\ ExtraIdle

CalcNext == Calculate

CalcSpec == CalcInit /\ [][CalcNext]_allVars

CalcTypeOK ==
  /\ calcCalls \in 0..MaxCalls
  /\ calcOut.status \in {"none", "returned"}
  /\ (calcOut.status = "none") <=> (calcCalls = 0)

\* items 1000 x 2 and 500 x 1, discount 10 %, tax 21 %
ScenarioA ==
  [items |-> <<[price |-> 1000, quantity |-> 2], [price |-> 500, quantity |-> 1]>>,
   discount |-> 10, tax |-> 21]

\* ---------------------------------------------------------------- create quote
MaxStock == 2      \* largest product.stock the backend reports

\* the two products of the catalogue, by _id
CatalogPrice == [A |-> 1000, B |-> 500]
CatalogIds   == {"A", "B"}

\* Product as returned by getProducts: `id` is optional in the type
Product(pid, withId, stock) ==
  [uid |-> pid, id |-> IF withId THEN pid ELSE "undefined",
   price |-> CatalogPrice[pid], stock |-> stock]

\* texts the numeric fields can hold, and the names of the customer field
DiscountTexts == {"", "0", "10", "150", "-5", "abc"}
TaxTexts      == {"21", "120", "abc"}
Names         == {"", "A", "Ana"}

\* parseFloat(text || '0'): a number, or NaN for a text that starts with no number
ParseFloat(text) ==
  CASE text = ""    -> [nan |-> FALSE, val |-> 0]
    [] text = "0"   -> [nan |-> FALSE, val |-> 0]
    [] text = "10"  -> [nan |-> FALSE, val |-> 10]
    [] text = "21"  -> [nan |-> FALSE, val |-> 21]
    [] text = "100" -> [nan |-> FALSE, val |-> 100]
    [] text = "120" -> [nan |-> FALSE, val |-> 120]
    [] text = "150" -> [nan |-> FALSE, val |-> 150]
    [] text = "-5"  -> [nan |-> FALSE, val |-> -5]
    [] OTHER        -> [nan |-> TRUE, val |-> 0]

\* JavaScript truthiness of a number: neither 0 nor NaN
Truthy(n) == ~n.nan /\ n.val # 0

\* name.trim().length
TrimLength(name) == CASE name = "" -> 0 [] name = "A" -> 1 [] OTHER -> 3

ErrorKey(field, index) == [field |-> field, index |-> index]

\* the CreateQuoteRequest built by validateForm and by handleSubmit
RequestData ==
  [name     |-> customerName,
   items    |-> [i \in DOMAIN formItems |->
                   [productId |-> formItems[i].product.id,
                    quantity  |-> formItems[i].quantity]],
   discount |-> ParseFloat(formDiscount),
   tax      |-> ParseFloat(formTax)]

\* validateQuoteData(data).errors, as the set of its keys; email, phone and
\* notes are left empty in the model
validateQuoteData(data) ==
  LET nameErr == IF TrimLength(data.name) < 2
                   THEN {ErrorKey("customerName", -1)} ELSE {}
      itemsErr == IF data.items = <<>> THEN {ErrorKey("items", -1)} ELSE {}
      productErr == {ErrorKey("itemProduct", i - 1) :
                       i \in {j \in DOMAIN data.items : data.items[j].productId = "undefined"}}
      quantityErr == {ErrorKey("itemQuantity", i - 1) :
                        i \in {j \in DOMAIN data.items :
                                 data.items[j].quantity <= 0 \/ data.items[j].quantity > 1000}}
      discountErr == IF Truthy(data.discount) /\ (data.discount.val < 0 \/ data.discount.val > 100)
                       THEN {ErrorKey("discount", -1)} ELSE {}
      taxErr == IF Truthy(data.tax) /\ (data.tax.val < 0 \/ data.tax.val > 100)
                  THEN {ErrorKey("tax", -1)} ELSE {}
  IN  nameErr \cup itemsErr \cup productErr \cup quantityErr \cup discountErr \cup taxErr

\* checkStockAvailability that finds every quantity available
checkStockAvailability_Always(product, requestedQuantity) == TRUE

\* checkStockAvailability(product, requestedQuantity).available
checkStockAvailability(product, requestedQuantity) ==
  LET availableQuantity == IF product.stock > 0 THEN product.stock ELSE 0
  IN  requestedQuantity <= availableQuantity

\* removeItem(index): items.filter((_, i) => i !== index)
removeItem(index) == formItems' = RemoveAt(formItems, index)

\* updateItemQuantity that keeps the subtotal of the old quantity
updateItemQuantity_StaleSubtotal(index, newQuantity) ==
  IF newQuantity <= 0
    THEN removeItem(index)
    ELSE IF ~checkStockAvailability(formItems[index].product, newQuantity)
      THEN UNCHANGED formItems
      ELSE formItems' = [formItems EXCEPT ![index].quantity = newQuantity]

\* updateItemQuantity(index, newQuantity)
updateItemQuantity(index, newQuantity) ==
  IF newQuantity <= 0
    THEN removeItem(index)
    ELSE IF ~checkStockAvailability(formItems[index].product, newQuantity)
      THEN UNCHANGED formItems   \* Alert 'Stock insuficiente'
      ELSE formItems' = [formItems EXCEPT
                           ![index].quantity = newQuantity,
                           ![index].subtotal = formItems[index].product.price * newQuantity]

formFrame == <<vars, apiVars, calcVars, expVars, storeVars>>

\* loadProducts resolved: the products with stock > 0 are kept
loadProductsOk(withId, stockA, stockB) ==
  /\ ~productsLoaded
  /\ productsLoaded' = TRUE
  /\ products' = SelectSeq(<<Product("A", withId, stockA), Product("B", withId, stockB)>>,
                           LAMBDA p : p.stock > 0)
  /\ UNCHANGED <<formItems, formDiscount, formTax, customerName, formErrors, isSaving,
                 quoteSent, formFrame>>

\* loadProducts failed: the error is shown, the product list stays empty
loadProductsFail ==
  /\ ~productsLoaded
  /\ productsLoaded' = TRUE
  /\ UNCHANGED <<products, formItems, formDiscount, formTax, customerName, formErrors,
                 isSaving, quoteSent, formFrame>>

\* handleInputChange(section, field, value) for the name, discount and tax fields
handleInputChange(field, value) ==
  /\ productsLoaded
  /\ formDiscount' = IF field = "discount" THEN value ELSE formDiscount
  /\ formTax' = IF field = "tax" THEN value ELSE formTax
  /\ customerName' = IF field = "customerName" THEN value ELSE customerName
  /\ formErrors' = formErrors \ {ErrorKey(field, -1)}
  /\ UNCHANGED <<products, productsLoaded, formItems, isSaving, quoteSent, formFrame>>

\* a press on a product of the picker
addProductToQuote(p) ==
  /\ productsLoaded
  /\ p \in DOMAIN products
  /\ LET product == products[p]
         existing == {i \in DOMAIN formItems : formItems[i].product.id = product.id}
     IN  IF existing # {}
           THEN LET existingItemIndex == CHOOSE i \in existing : \A j \in existing : i <= j
                IN  updateItemQuantity(existingItemIndex,
                                       formItems[existingItemIndex].quantity + 1)
           ELSE formItems' = Append(formItems,
                     [product |-> product, quantity |-> 1, subtotal |-> product.price])
  /\ UNCHANGED <<products, productsLoaded, formDiscount, formTax, customerName, formErrors,
                 isSaving, quoteSent, formFrame>>

\* a press on the minus (delta = -1) or plus (delta = 1) button of a cart row
PressQuantity(index, delta) ==
  /\ index \in DOMAIN formItems
  /\ updateItemQuantity(index, formItems[index].quantity + delta)
  /\ UNCHANGED <<products, productsLoaded, formDiscount, formTax, customerName, formErrors,
                 isSaving, quoteSent, formFrame>>

\* a press on the remove button of a cart row
PressRemove(index) ==
  /\ index \in DOMAIN formItems
  /\ removeItem(index)
  /\ UNCHANGED <<products, productsLoaded, formDiscount, formTax, customerName, formErrors,
                 isSaving, quoteSent, formFrame>>

\* handleSubmit up to its await: validateForm, then createQuote(quoteData)
handleSubmit ==
  /\ productsLoaded
  /\ ~isSaving
  /\ formItems # <<>>
  /\ formErrors' = validateQuoteData(RequestData)
  /\ IF formErrors' = {}
       THEN /\ isSaving' = TRUE
            /\ quoteSent' = [sent |-> TRUE, items |-> RequestData.items,
                             discount |-> formDiscount, tax |-> formTax]
       ELSE UNCHANGED <<isSaving, quoteSent>>
  /\ UNCHANGED <<products, productsLoaded, formItems, formDiscount, formTax, customerName,
                 formFrame>>

\* createQuote resolved or was rejected: finally setIsSaving(false)
CreateQuoteSettled ==
  /\ isSaving
  /\ isSaving' = FALSE
  /\ quoteSent' = NoQuoteRequest
  /\ UNCHANGED <<products, productsLoaded, formItems, formDiscount, formTax, customerName,
                 formErrors, formFrame>>

\* CreateQuoteScreen.calculateTotals(): sums the stored item.subtotal values
RECURSIVE reduceStored(_)
reduceStored(items) ==
  IF items = <<>>
    THEN 0
    ELSE reduceStored(SubSeq(items, 1, Len(items) - 1)) + items[Len(items)].subtotal * Scale

calculateTotals ==
  LET subtotal       == reduceStored(formItems)
      discountAmount == MulDiv100(subtotal, ParseFloat(formDiscount).val)
      afterDiscount  == subtotal - discountAmount
      taxAmount      == MulDiv100(afterDiscount, ParseFloat(formTax).val)
      total          == afterDiscount + taxAmount
  IN  [status |-> "returned", subtotal |-> subtotal,
       discountAmount |-> discountAmount, taxAmount |-> taxAmount, total |-> total]

FormInit == FormIdle /\ ExpIdle /\ StoreIdle /\ ScreenIdle /\ ApiIdle /\ CalcIdle

FormNext ==
  \/ \E withId \in BOOLEAN, stockA \in 0..MaxStock, stockB \in 0..1 :
       loadProductsOk(withId, stockA, stockB)
  \/ loadProductsFail
  \/ \E value \in DiscountTexts : handleInputChange("discount", value)
  \/ \E value \in TaxTexts : handleInputChange("tax", value)
  \/ \E value \in Names \ {""} : handleInputChange("customerName", value)
  \/ \E p \in 1..2 : addProductToQuote(p)
  \/ \E index \in 1..2, delta \in {-1, 1} : PressQuantity(index, delta)
  \/ \E index \in 1..2 : PressRemove(index)
  \/ handleSubmit
  \/ CreateQuoteSettled

FormSpec == FormInit /\ [][FormNext]_allVars

FormTypeOK ==
  /\ Len(formItems) <= Len(products)
  /\ formDiscount \in DiscountTexts
  /\ formTax \in TaxTexts
  /\ customerName \in Names
  /\ isSaving <=> quoteSent.sent

\* ---------------------------------------------------------------- expiry helpers
MS_PER_MINUTE == 1000 * 60
MS_PER_HOUR   == 1000 * 60 * 60
MS_PER_DAY    == 1000 * 60 * 60 * 24
MaxElapsed    == 2      \* milliseconds the clock runs on from a sampled instant

\* expiresAt of the sampled entity, and the sampled remaining times (ms)
SampleExpiresAt == 5 * MS_PER_DAY
RemainingSamples ==
  {-1, 0, 1, MS_PER_MINUTE,
   MS_PER_HOUR - 1, MS_PER_HOUR, MS_PER_HOUR + 1, 2 * MS_PER_HOUR - 1, 2 * MS_PER_HOUR,
   3 * MS_PER_HOUR, 3 * MS_PER_HOUR + 1, 4 * MS_PER_HOUR - 1, 4 * MS_PER_HOUR,
   MS_PER_DAY - 1, MS_PER_DAY, MS_PER_DAY + 1, 2 * MS_PER_DAY - 1, 2 * MS_PER_DAY,
   3 * MS_PER_DAY, 3 * MS_PER_DAY + 1, 4 * MS_PER_DAY - 1, 4 * MS_PER_DAY, 5 * MS_PER_DAY}

\* isQuoteExpired(quote): new Date() > new Date(quote.expiresAt)
isQuoteExpired(t, expiresAt) == t > expiresAt

\* getTimeUntilExpiration reporting expiry only after expiresAt has passed
getTimeUntilExpiration_StrictlyPast(t, expiresAt) ==
  LET diffMs == expiresAt - t
      days   == diffMs \div MS_PER_DAY
  IN  IF diffMs < 0
        THEN [expired |-> TRUE, urgency |-> "high"]
        ELSE IF days > 0
          THEN [expired |-> FALSE,
                urgency |-> IF days <= 1 THEN "high" ELSE IF days <= 3 THEN "medium" ELSE "low"]
          ELSE [expired |-> FALSE, urgency |-> "high"]

\* getTimeUntilExpiration(quote): expired and urgency (timeLeft is a label)
getTimeUntilExpiration(t, expiresAt) ==
  LET diffMs == expiresAt - t
      days   == diffMs \div MS_PER_DAY
  IN  IF diffMs <= 0
        THEN [expired |-> TRUE, urgency |-> "high"]
        ELSE IF days > 0
          THEN [expired |-> FALSE,
                urgency |-> IF days <= 1 THEN "high" ELSE IF days <= 3 THEN "medium" ELSE "low"]
          ELSE [expired |-> FALSE, urgency |-> "high"]

\* isPaymentExpired(payment)
isPaymentExpired(t, expiresAt) ==
  IF expiresAt = NoExpiry THEN FALSE ELSE t > expiresAt

\* getPaymentTimeLeft(payment): expired and urgency
getPaymentTimeLeft(t, expiresAt) ==
  IF expiresAt = NoExpiry
    THEN [expired |-> FALSE, urgency |-> "low"]
    ELSE LET diffMs  == expiresAt - t
             minutes == diffMs \div MS_PER_MINUTE
             hours   == minutes \div 60
         IN  IF diffMs <= 0
               THEN [expired |-> TRUE, urgency |-> "high"]
               ELSE IF hours > 0
                 THEN [expired |-> FALSE,
                       urgency |-> IF hours <= 1 THEN "high"
                                   ELSE IF hours <= 3 THEN "medium" ELSE "low"]
                 ELSE [expired |-> FALSE, urgency |-> "high"]

expFrame == <<vars, apiVars, calcVars, formVars, storeVars>>

\* a render that calls both helpers of the entity at the instant expNow
Evaluate ==
  /\ ~expOut.called
  /\ LET info == IF expKind = "quote"
                   THEN getTimeUntilExpiration(expNow, expExpiresAt)
                   ELSE getPaymentTimeLeft(expNow, expExpiresAt)
         isExp == IF expKind = "quote"
                    THEN isQuoteExpired(expNow, expExpiresAt)
                    ELSE isPaymentExpired(expNow, expExpiresAt)
     IN  expOut' = [called |-> TRUE, expired |-> info.expired,
                    urgency |-> info.urgency, isExpired |-> isExp]
  /\ UNCHANGED <<expKind, expExpiresAt, expNow, expFrame>>

\* a millisecond passes; what was rendered is out of date
ExpTick ==
  /\ \E r \in RemainingSamples :
       LET start == SampleExpiresAt - r
       IN  expNow >= start /\ expNow - start < MaxElapsed
  /\ expNow' = expNow + 1
  /\ expOut' = NoTimeInfo
  /\ UNCHANGED <<expKind, expExpiresAt, expFrame>>

ExpInit ==
  /\ expKind \in {"quote", "payment"}
  /\ expExpiresAt \in IF expKind = "quote" THEN {SampleExpiresAt}
                                          ELSE {SampleExpiresAt, NoExpiry}
  /\ expNow \in {SampleExpiresAt - r : r \in RemainingSamples}
  /\ expOut = NoTimeInfo
  /\ FormIdle /\ StoreIdle /\ ScreenIdle /\ ApiIdle /\ CalcIdle

ExpNext == Evaluate \/ ExpTick

ExpSpec == ExpInit /\ [][ExpNext]_allVars

ExpTypeOK ==
  /\ expKind \in {"quote", "payment"}
  /\ expNow \in 0..(SampleExpiresAt + 1 + MaxElapsed)
  /\ expOut.urgency \in {"low", "medium", "high"}

\* ---------------------------------------------------------------- storage and session
MaxNow == 3      \* last instant of the storage clock

CacheValues == {"v1", "v2"}
Expiries    == {NoExpiry} \cup (0..MaxNow)

\* JavaScript truthiness of storageItem.expiry: neither undefined nor 0
HasExpiry(entry) == entry.expiry # NoExpiry /\ entry.expiry # 0

\* storageItem.expiry && Date.now() > storageItem.expiry
ExpiryPassed(entry, t) == HasExpiry(entry) /\ t > entry.expiry

storeFrame == <<vars, apiVars, calcVars, formVars, expVars>>

\* setItem(key, value, {expiry}) on the cache key
setItem(value, expiry) ==
  /\ storage' = [storage EXCEPT !["cache"] = Entry("item", value, expiry)]
  /\ UNCHANGED <<stNow, authUser, authLoading, authHeader, lastGet, storeFrame>>

\* getItem(key)
getItem(key) ==
  LET entry == storage[key] IN
  /\ CASE entry.kind = "absent" ->
            lastGet' = [key |-> key, result |-> "null"] /\ UNCHANGED storage
       [] entry.kind = "raw" ->            \* JSON.parse throws, catch returns null
            lastGet' = [key |-> key, result |-> "null"] /\ UNCHANGED storage
       [] entry.kind = "json" ->           \* storageItem.data is undefined
            lastGet' = [key |-> key, result |-> "undefined"] /\ UNCHANGED storage
       [] OTHER ->
            IF ExpiryPassed(entry, stNow)
              THEN /\ storage' = [storage EXCEPT ![key] = Absent]
                   /\ lastGet' = [key |-> key, result |-> "null"]
              ELSE /\ lastGet' = [key |-> key, result |-> entry.data]
                   /\ UNCHANGED storage
  /\ UNCHANGED <<stNow, authUser, authLoading, authHeader, storeFrame>>

\* isCacheValid(key)
isCacheValid(key) ==
  LET entry == storage[key] IN
  CASE entry.kind = "absent" -> FALSE
    [] entry.kind = "raw"    -> FALSE      \* JSON.parse throws, catch returns false
    [] entry.kind = "json"   -> TRUE
    [] OTHER                 -> ~ExpiryPassed(entry, stNow)

\* cleanExpiredCache(): removeItems of the keys of getAllKeys that are not valid
cleanExpiredCache ==
  /\ \E k \in StorageKeys : storage[k] # Absent
  /\ storage' = [k \in StorageKeys |-> IF isCacheValid(k) THEN storage[k] ELSE Absent]
  /\ lastGet' = NoCall
  /\ UNCHANGED <<stNow, authUser, authLoading, authHeader, storeFrame>>

\* time passes
StoreTick ==
  /\ stNow < MaxNow
  /\ stNow' = stNow + 1
  /\ UNCHANGED <<storage, authUser, authLoading, authHeader, lastGet, storeFrame>>

\* login / register succeeded: raw token and JSON user stored, header and user set
login ==
  /\ ~authLoading
  /\ authUser = "null"
  /\ storage' = [storage EXCEPT !["auth_token"] = Entry("raw", "token", NoExpiry),
                                !["user_data"]  = Entry("json", "user", NoExpiry)]
  /\ authHeader' = TRUE
  /\ authUser' = "user"
  /\ UNCHANGED <<stNow, authLoading, lastGet, storeFrame>>

\* handleLogout(): multiRemove, clearAuth, setUser(null)
handleLogout ==
  /\ storage' = [storage EXCEPT !["auth_token"] = Absent, !["user_data"] = Absent]
  /\ authHeader' = FALSE
  /\ authUser' = "null"

\* logout()
logout ==
  /\ ~authLoading
  /\ authUser # "null"
  /\ handleLogout
  /\ UNCHANGED <<stNow, authLoading, lastGet, storeFrame>>

\* initAuthState(): the stored session is restored if getCurrentUser accepts the
\* token (tokenValid), and cleared if it does not
initAuthState(tokenValid) ==
  /\ authLoading
  /\ authLoading' = FALSE
  /\ IF storage["auth_token"] # Absent /\ storage["user_data"] # Absent
       THEN IF tokenValid
              THEN /\ authUser' = "user"
                   /\ authHeader' = TRUE
                   /\ UNCHANGED storage
              ELSE handleLogout
       ELSE UNCHANGED <<storage, authUser, authHeader>>
  /\ UNCHANGED <<stNow, lastGet, storeFrame>>

\* the app is closed and started again: memory is lost, AsyncStorage is kept
AppRestart ==
  /\ ~authLoading
  /\ authLoading' = TRUE
  /\ authUser' = "null"
  /\ authHeader' = FALSE
  /\ UNCHANGED <<storage, stNow, lastGet, storeFrame>>

\* a request of a screen is answered 401: the response interceptor removes the
\* token and the user from storage and rejects
Response401 ==
  /\ ~authLoading
  /\ storage' = [storage EXCEPT !["auth_token"] = Absent, !["user_data"] = Absent]
  /\ UNCHANGED <<stNow, authUser, authLoading, authHeader, lastGet, storeFrame>>

StoreInit == StoreIdle /\ FormIdle /\ ExpIdle /\ ScreenIdle /\ ApiIdle /\ CalcIdle

StorageOps ==
  \/ \E value \in CacheValues, expiry \in Expiries : setItem(value, expiry)
  \/ \E key \in StorageKeys : getItem(key)
  \/ StoreTick

StoreNext ==
  \/ StorageOps
  \/ cleanExpiredCache
  \/ initAuthState(TRUE)
  \/ login

StoreSpec == StoreInit /\ [][StoreNext]_allVars

AuthNext ==
  \/ StorageOps
  \/ \E tokenValid \in BOOLEAN : initAuthState(tokenValid)
  \/ login
  \/ logout
  \/ AppRestart
  \/ Response401

AuthSpec == StoreInit /\ [][AuthNext]_allVars

StoreTypeOK ==
  /\ stNow \in 1..MaxNow
  /\ authUser \in {"null", "user"}
  /\ \A k \in StorageKeys : storage[k].kind \in {"absent", "raw", "json", "item"}
  /\ lastGet.result \in {"none", "null", "undefined"} \cup CacheValues

\* ---------------------------------------------------------------- claims

\* C11 (as stated): a call that keeps failing transiently is sent at most 3
\* times in total, after waits of 1000 ms and 2000 ms.
C11_AtMostThreeSends ==
  /\ sends <= 3
  /\ Len(waits) <= 2
  /\ \A i \in DOMAIN waits : waits[i] = i * 1000

\* C11 (amended): a call that keeps failing transiently is sent at most
\* RETRY_ATTEMPTS + 1 = 4 times, the i-th re-send after a wait of
\* i * RETRY_DELAY ms (1000, 2000, 3000), and it is rejected to the caller
\* only after the fourth send.
C11_RetryBudget ==
  /\ sends <= RETRY_ATTEMPTS + 1
  /\ Len(waits) = (IF sends = 0 THEN 0 ELSE sends - 1)
  /\ \A i \in DOMAIN waits : waits[i] = i * RETRY_DELAY
  /\ (req.phase = "wire") => (req.retryCount = sends - 1)
  /\ (outcome = "error" /\ IsRetryable(lastResp)) => (sends = RETRY_ATTEMPTS + 1)

\* a call rejected after the retries were used up
C11_Witness ==
  /\ outcome = "error"
  /\ IsRetryable(lastResp)
  /\ sends = 4
  /\ waits = <<1000, 2000, 3000>>

\* C12: no create POST leaves for a quote that is expired or not pending at
\* the moment the request is issued.
C12_NoPostWhenNotPayable == ~postedBad

C14_ClientErrorNotRetried ==
  [][(req.phase = "wire" /\ IsClientError(lastResp'))
       => /\ req'.phase = "idle"
          /\ outcome' = "error"
          /\ sends' = sends
          /\ waits' = waits]_allVars

\* a request refused with 400 on its first and only attempt
C14_Witness ==
  /\ outcome = "error"
  /\ lastResp.status = 400
  /\ sends = 1
  /\ waits = <<>>

\* C15: the held payment changes only in a step in which a getPaymentStatus
\* call returned successfully to loadPaymentData or checkPaymentStatus.
C15_OnlyGatewayWrites ==
  [][(payment' # payment) => (Returned /\ lastPoll' \in {"loadOk", "checkOk"})]_vars

\* the user cancelled and a check failed, and the held payment is still pending
C15_Witness ==
  /\ cancelConfirmed
  /\ payment = "pending"
  /\ lastPoll = "checkFail"

\* C16: once the screen is torn down it stays torn down and the interval
\* issues no status fetch.
C16_NoTimerAfterTeardown ==
  [][(~mounted) => (~mounted' /\ ~TimerFetchIssued)]_vars

\* the screen was torn down while the payment was pending and the timer polling
C16_Witness ==
  /\ ~mounted
  /\ payment = "pending"
  /\ lastPoll = "timerFetch"
  /\ ~tickChecking

\* sum of price x quantity over the items, in whole currency units
RECURSIVE C17_LineSum(_)
C17_LineSum(items) ==
  IF items = <<>> THEN 0
  ELSE Head(items).price * Head(items).quantity + C17_LineSum(Tail(items))

\* C17: for percentages in [0,100] the returned subtotal is the sum of price x
\* quantity, discountAmount = subtotal x discount / 100, taxAmount =
\* (subtotal - discountAmount) x tax / 100, total = (subtotal - discountAmount)
\* + taxAmount, and a second call with the same arguments returns the same.
C17_TotalsIdentity ==
  /\ []((calcOut.status = "returned" /\ calcIn.discount \in 0..100 /\ calcIn.tax \in 0..100)
          => LET S == C17_LineSum(calcIn.items) IN
             /\ calcOut.subtotal = S * Scale
             /\ calcOut.discountAmount = S * calcIn.discount * (Scale \div 100)
             /\ calcOut.taxAmount = S * (100 - calcIn.discount) * calcIn.tax * (Scale \div 10000)
             /\ calcOut.total = (calcOut.subtotal - calcOut.discountAmount) + calcOut.taxAmount)
  /\ [][(calcOut.status = "returned" /\ calcIn' = calcIn) => (calcOut' = calcOut)]_allVars

\* the totals of scenario A after a second call
C17_Witness ==
  /\ calcIn = ScenarioA
  /\ calcCalls = 2
  /\ calcOut.status = "returned"
  /\ calcOut.subtotal = 2500 * Scale
  /\ calcOut.total = 27225000

\* C18: discountAmount and taxAmount are rounded half-up to whole subunits
\* before they are summed, so that whole prices give whole amounts: scenario A
\* returns subtotal 2500, discountAmount 250, taxAmount 473 and total 2723.
C18_RoundsHalfUp ==
  (calcOut.status = "returned" /\ calcIn = ScenarioA)
    => /\ calcOut.subtotal = 2500 * Scale
       /\ calcOut.discountAmount = 250 * Scale
       /\ calcOut.taxAmount = 473 * Scale
       /\ calcOut.total = 2723 * Scale

C20_RejectsInvalid ==
  (/\ calcCalls > 0
   /\ \/ \E i \in DOMAIN calcIn.items :
            calcIn.items[i].quantity < 1 \/ calcIn.items[i].price < 0
      \/ calcIn.discount \notin 0..100
      \/ calcIn.tax \notin 0..100)
    => (calcOut.status = "threw")

\* C21: createQuote is never called with a discount or tax that is not a
\* number within [0,100], or with an item whose quantity is below 1.
C21_NoInvalidQuoteSent ==
  quoteSent.sent
    => /\ ~ParseFloat(quoteSent.discount).nan
       /\ ParseFloat(quoteSent.discount).val \in 0..100
       /\ ~ParseFloat(quoteSent.tax).nan
       /\ ParseFloat(quoteSent.tax).val \in 0..100
       /\ \A i \in DOMAIN quoteSent.items : quoteSent.items[i].quantity >= 1

\* C26: every cart item has 1 <= quantity <= product.stock and subtotal =
\* product.price x quantity, and no product is in two cart items.
C26_CartInvariant ==
  /\ \A i \in DOMAIN formItems :
       /\ formItems[i].quantity >= 1
       /\ formItems[i].quantity <= formItems[i].product.stock
       /\ formItems[i].subtotal = formItems[i].product.price * formItems[i].quantity
  /\ \A i, j \in DOMAIN formItems :
       (formItems[i].product.uid = formItems[j].product.uid) => (i = j)

\* a cart of two products, the first taken up to its stock of 2
C26_Witness ==
  /\ Len(formItems) = 2
  /\ formItems[1].quantity = 2
  /\ formItems[1].product.stock = 2
  /\ formItems[2].quantity = 1

\* C27: for numeric discount and tax the totals of the screen's
\* calculateTotals equal those of calculateQuoteTotals for the same products,
\* quantities and percentages.
C27_SameTotals ==
  (productsLoaded /\ ~ParseFloat(formDiscount).nan /\ ~ParseFloat(formTax).nan)
    => calculateTotals =
         calculateQuoteTotals(
           [i \in DOMAIN formItems |->
              [price |-> formItems[i].product.price, quantity |-> formItems[i].quantity]],
           ParseFloat(formDiscount).val, ParseFloat(formTax).val)

\* the cart 1000 x 2 and 500 x 1 with discount 10 and tax 21 shows 2722.5
C27_Witness ==
  /\ Len(formItems) = 2
  /\ formItems[1].quantity = 2
  /\ formItems[1].product.price = 1000
  /\ formDiscount = "10"
  /\ formTax = "21"
  /\ calculateTotals.total = 27225000

\* C22: both helpers report expired exactly when now >= expiresAt (so at
\* now = expiresAt, and not one millisecond earlier), and then urgency high.
C22_ExpiredAtDeadline ==
  (expOut.called /\ expExpiresAt # NoExpiry)
    => /\ expOut.expired <=> (expNow >= expExpiresAt)
       /\ expOut.expired => (expOut.urgency = "high")

\* the helper called at the very instant of expiry
C22_Witness ==
  /\ expOut.called
  /\ expNow = expExpiresAt
  /\ expOut.expired
  /\ expOut.urgency = "high"

\* C23: for a non-expired quote the urgency is high iff at most 1 day remains,
\* medium iff more than 1 day and at most 3 days remain, low otherwise.
C23_QuoteUrgencyTiers ==
  (expOut.called /\ expKind = "quote" /\ expNow < expExpiresAt)
    => LET remaining == expExpiresAt - expNow
       IN  expOut.urgency = IF remaining <= MS_PER_DAY THEN "high"
                            ELSE IF remaining <= 3 * MS_PER_DAY THEN "medium" ELSE "low"

\* C24: for a non-expired payment with an expiresAt the urgency is high iff at
\* most 1 hour remains, medium iff more than 1 hour and at most 3 hours
\* remain, low otherwise.
C24_PaymentUrgencyTiers ==
  (expOut.called /\ expKind = "payment" /\ expExpiresAt # NoExpiry /\ expNow < expExpiresAt)
    => LET remaining == expExpiresAt - expNow
       IN  expOut.urgency = IF remaining <= MS_PER_HOUR THEN "high"
                            ELSE IF remaining <= 3 * MS_PER_HOUR THEN "medium" ELSE "low"

\* C25: at every instant isQuoteExpired equals getTimeUntilExpiration().expired
\* and isPaymentExpired equals getPaymentTimeLeft().expired.
C25_ExpiredAgrees ==
  expOut.called => (expOut.isExpired = expOut.expired)

\* C28: the auth context reports an authenticated user only while an auth
\* token is in storage.
C28_AuthenticatedHasToken ==
  (authUser # "null") => (storage["auth_token"] # Absent)

\* C29: cleanExpiredCache removes exactly the entries whose expiry has passed
\* and leaves every other key as it was.
C29_CleanOnlyExpired ==
  [][cleanExpiredCache
       => \A k \in StorageKeys :
            storage'[k] = IF /\ storage[k].kind = "item"
                             /\ storage[k].expiry # NoExpiry
                             /\ stNow > storage[k].expiry
                            THEN Absent ELSE storage[k]]_allVars

\* C30: getItem of a key last written by setItem returns the value when no
\* expiry was given or now <= expiry; when now > expiry it returns null and
\* removes the key; getItem of a removed key returns null.
C30_GetAfterSet ==
  [][\A key \in StorageKeys :
       getItem(key)
         => LET entry == storage[key] IN
            /\ (entry.kind = "item" /\ (entry.expiry = NoExpiry \/ stNow <= entry.expiry))
                 => (lastGet'.result = entry.data /\ storage' = storage)
            /\ (entry.kind = "item" /\ entry.expiry # NoExpiry /\ stNow > entry.expiry)
                 => (lastGet'.result = "null" /\ storage'[key] = Absent)
            /\ (entry.kind = "absent") => (lastGet'.result = "null")]_allVars

====
